---- MODULE Spec2Model ----
(***************************************************************************)
(* Model of launcher/ui/pages/global/APIPage.cpp: the API settings page.   *)
(*                                                                         *)
(* URL texts are sequences of one-character strings, so that QUrl's        *)
(* parsing and printing are computed and not assumed.  The other texts     *)
(* (client id, keys, token, user agent, paste base URL) are copied         *)
(* verbatim by the code and are plain strings.                             *)
(*                                                                         *)
(* Spec    : one page, from the end of its constructor on.                 *)
(* SpecUrl : verifyUrl alone, applied twice to each input of UrlInputs.    *)
(***************************************************************************)
EXTENDS Integers, Sequences, FiniteSets, TLC

VARIABLES
    store,              \* APPLICATION->settings(): setting name -> value
    ui,                 \* the widgets of Ui::APIPage the code reads and writes
    baseURLPasteType,   \* APIPage::baseURLPasteType
    pending,            \* downloadAndApplyProperties() calls without outcome yet
    lastOp,             \* the handler that ran last
    pristine,           \* history: no user edit since the last loadSettings
    storeUrlsApplied,   \* history: the three URL overrides in the store are the
                        \* defaults or were written by applySettings
    edits,              \* number of user edits so far
    urlParts,           \* SpecUrl: the components the input was written from
    urlIn,              \* SpecUrl: the input text
    urlOut,             \* SpecUrl: verifyUrl(urlIn)
    urlAgain,           \* SpecUrl: verifyUrl(urlOut)
    urlPhase            \* SpecUrl: "in", "once", "twice"; "off" under Spec

pageVars == <<store, ui, baseURLPasteType, pending, lastOp, pristine,
              storeUrlsApplied, edits>>
urlVars == <<urlParts, urlIn, urlOut, urlAgain, urlPhase>>
vars == <<pageVars, urlVars>>

\* Bounds of the model.
MaxEdits == 3
MaxSegs == 2

(***************************************************************************)
(* Text helpers.                                                           *)
(***************************************************************************)
RECURSIVE IndexFrom(_, _, _)
IndexFrom(s, c, i) ==
    IF i > Len(s) THEN 0
    ELSE IF s[i] = c THEN i
    ELSE IndexFrom(s, c, i + 1)

\* QString::indexOf, 1-based; 0 when absent.
IndexOf(s, c) == IndexFrom(s, c, 1)

\* QString::endsWith(QChar)
endsWith(s, c) == Len(s) > 0 /\ s[Len(s)] = c

Upper == {"H", "T", "P", "E"}
Lower == {"h", "t", "p", "s", "f", "e", "a", "q"}

toLower(c) ==
    CASE c = "H" -> "h"
      [] c = "T" -> "t"
      [] c = "P" -> "p"
      [] c = "E" -> "e"
      [] OTHER -> c

toLowerSeq(s) == [i \in 1..Len(s) |-> toLower(s[i])]

Tail2(s, from) == IF from > Len(s) THEN <<>> ELSE SubSeq(s, from, Len(s))

(***************************************************************************)
(* QUrl, as far as verifyUrl uses it: the generic syntax of RFC 3986,      *)
(*   [scheme ":"] ["//" authority] path ["?" query] ["#" fragment]         *)
(* The authority of the texts considered is a bare host name (no user      *)
(* info, no port), and no text holds a percent-encoding.                   *)
(***************************************************************************)
Http == <<"h", "t", "t", "p">>
Https == <<"h", "t", "t", "p", "s">>

IsSchemeText(s) ==
    /\ Len(s) > 0
    /\ \A i \in 1..Len(s) : s[i] \in Upper \cup Lower

\* The text before position i, all of it when i = 0.
Before(s, i) == IF i = 0 THEN s ELSE SubSeq(s, 1, i - 1)

\* The text after position i, none when i = 0.
After(s, i) == IF i = 0 THEN <<>> ELSE Tail2(s, i + 1)

\* The text up to the first ":" is a scheme.
HasScheme(hier) ==
    /\ IndexOf(hier, ":") > 1
    /\ IsSchemeText(SubSeq(hier, 1, IndexOf(hier, ":") - 1))

\* The text after "scheme:" starts an authority.
HasAuthority(rest) == Len(rest) >= 2 /\ rest[1] = "/" /\ rest[2] = "/"

\* The authority ends at the next "/".
HostOf(rest) ==
    IF ~HasAuthority(rest) THEN <<>>
    ELSE toLowerSeq(Before(Tail2(rest, 3), IndexOf(Tail2(rest, 3), "/")))

PathOf(rest) ==
    IF ~HasAuthority(rest) THEN rest
    ELSE IF IndexOf(Tail2(rest, 3), "/") = 0 THEN <<>>
    ELSE Tail2(Tail2(rest, 3), IndexOf(Tail2(rest, 3), "/"))

ParseHier(hier, hasQuery, query, hasFragment, fragment) ==
    [ scheme |-> IF HasScheme(hier)
                 THEN toLowerSeq(Before(hier, IndexOf(hier, ":")))
                 ELSE <<>>,
      hasAuthority |->
          HasAuthority(IF HasScheme(hier) THEN After(hier, IndexOf(hier, ":")) ELSE hier),
      host |-> HostOf(IF HasScheme(hier) THEN After(hier, IndexOf(hier, ":")) ELSE hier),
      path |-> PathOf(IF HasScheme(hier) THEN After(hier, IndexOf(hier, ":")) ELSE hier),
      hasQuery |-> hasQuery,
      query |-> query,
      hasFragment |-> hasFragment,
      fragment |-> fragment ]

ParseNoFragment(noFrag, hasFragment, fragment) ==
    ParseHier(Before(noFrag, IndexOf(noFrag, "?")), IndexOf(noFrag, "?") # 0,
              After(noFrag, IndexOf(noFrag, "?")), hasFragment, fragment)

\* QUrl::QUrl(const QString&): the parts of the text, split at the first "#",
\* the first "?" before it, the scheme's ":" and the end of the authority.
\* The scheme and the host are stored in lower case.
QUrlParse(url) ==
    ParseNoFragment(Before(url, IndexOf(url, "#")), IndexOf(url, "#") # 0,
                    After(url, IndexOf(url, "#")))

\* QUrl::isEmpty: no part is present.
isEmpty(qUrl) ==
    /\ qUrl.scheme = <<>>
    /\ ~qUrl.hasAuthority
    /\ qUrl.path = <<>>
    /\ ~qUrl.hasQuery
    /\ ~qUrl.hasFragment

\* QUrl::setPath
setPath(qUrl, path) == [qUrl EXCEPT !.path = path]

\* QUrl::setScheme
setScheme(qUrl, scheme) == [qUrl EXCEPT !.scheme = toLowerSeq(scheme)]

\* QUrl::toString: the parts that are present, with their delimiters.
toString(qUrl) ==
    (IF qUrl.scheme = <<>> THEN <<>> ELSE qUrl.scheme \o <<":">>)
    \o (IF qUrl.hasAuthority THEN <<"/", "/">> \o qUrl.host ELSE <<>>)
    \o qUrl.path
    \o (IF qUrl.hasQuery THEN <<"?">> \o qUrl.query ELSE <<>>)
    \o (IF qUrl.hasFragment THEN <<"#">> \o qUrl.fragment ELSE <<>>)

\* Faulty variant of addTrailingSlash: the test for the slash is left out.
addTrailingSlashAlways(qUrl) ==
    IF ~isEmpty(qUrl) THEN setPath(qUrl, qUrl.path \o <<"/">>) ELSE qUrl

\* verifyUrl, lines 182-186: add the required trailing slash.
addTrailingSlash(qUrl) ==
    IF ~isEmpty(qUrl) /\ ~endsWith(qUrl.path, "/")
    THEN setPath(qUrl, qUrl.path \o <<"/">>)
    ELSE qUrl

\* verifyUrl, lines 188-190: http becomes https.
replaceHttp(qUrl) ==
    IF ~isEmpty(qUrl) /\ qUrl.scheme = Http THEN setScheme(qUrl, Https) ELSE qUrl

\* Faulty variant of verifyUrl: the slash is appended to every path.
verifyUrlAlwaysAppends(url) ==
    toString(replaceHttp(addTrailingSlashAlways(QUrlParse(url))))

\* Faulty variant of verifyUrl: the scheme is not rewritten.
verifyUrlKeepsHttp(url) == toString(addTrailingSlash(QUrlParse(url)))

\* verifyUrl(const QString& url)
verifyUrl(url) == toString(replaceHttp(addTrailingSlash(QUrlParse(url))))

(***************************************************************************)
(* SpecUrl: the inputs of verifyUrl, each written from its components.     *)
(***************************************************************************)
RECURSIVE Segments(_)
Segments(k) == IF k = 0 THEN <<>> ELSE <<"/", "a">> \o Segments(k - 1)

\* The path text: k segments, absolute or relative, with or without a
\* trailing slash.
PathText(k, absolute, slash) ==
    LET segs == Segments(k)
        body == IF absolute \/ k = 0 THEN segs ELSE Tail(segs)
    IN  body \o (IF slash THEN <<"/">> ELSE <<>>)

Schemes == {<<>>, Http, Https, <<"H", "T", "T", "P">>, <<"f", "t", "p">>}
Hosts == {<<"e">>, <<"E">>}
Queries == {<<>>, <<"q">>, <<"q", "/">>}
Fragments == {<<"f">>, <<"f", "/">>}

\* hasAuthority implies an absolute path; a path of no segment is "" or "/".
UrlParts ==
    { p \in [ scheme : Schemes,
              hasAuthority : BOOLEAN, host : Hosts \cup {<<>>},
              segs : 0..MaxSegs, absolute : BOOLEAN, slash : BOOLEAN,
              hasQuery : BOOLEAN, query : Queries,
              hasFragment : BOOLEAN, fragment : Fragments \cup {<<>>} ] :
        /\ p.hasAuthority <=> p.host # <<>>
        /\ p.hasAuthority => p.absolute
        /\ p.segs = 0 => p.absolute
        /\ ~p.hasQuery => p.query = <<>>
        /\ p.hasFragment <=> p.fragment # <<>> }

\* The text a user writes for the components p.
UrlText(p) ==
    (IF p.scheme = <<>> THEN <<>> ELSE p.scheme \o <<":">>)
    \o (IF p.hasAuthority THEN <<"/", "/">> \o p.host ELSE <<>>)
    \o PathText(p.segs, p.absolute, p.slash)
    \o (IF p.hasQuery THEN <<"?">> \o p.query ELSE <<>>)
    \o (IF p.hasFragment THEN <<"#">> \o p.fragment ELSE <<>>)

NoParts ==
    [ scheme |-> <<>>, hasAuthority |-> FALSE, host |-> <<>>, segs |-> 0,
      absolute |-> TRUE, slash |-> FALSE, hasQuery |-> FALSE, query |-> <<>>,
      hasFragment |-> FALSE, fragment |-> <<>> ]

(***************************************************************************)
(* The page.                                                               *)
(***************************************************************************)
\* int comboBoxEntries[]: the paste types in combo-box order, index 0 first.
comboBoxEntries ==
    [i \in 0..3 |-> CASE i = 0 -> "Mclogs"
                      [] i = 1 -> "NullPointer"
                      [] i = 2 -> "PasteGG"
                      [] i = 3 -> "Hastebin"]

PasteTypes == {comboBoxEntries[i] : i \in 0..3}

\* QComboBox::findData: the index of the entry holding the data, -1 if none.
findData(pasteType) ==
    IF \E i \in 0..3 : comboBoxEntries[i] = pasteType
    THEN CHOOSE i \in 0..3 : comboBoxEntries[i] = pasteType
    ELSE -1

UrlKeys == {"MetaURLOverride", "MinecraftResourceURLOverride",
            "MinecraftLibrariesURLOverride"}
TextFields == {"msaClientID", "flameKey", "modrinthToken", "userAgentLineEdit"}
UrlFields == {"metaURL", "resourceURL", "librariesURL"}

\* APIPage::updateBaseURLNote(int index)
updateBaseURLNote(u, bpt, index) ==
    IF bpt = index THEN [u EXCEPT !.baseURLNote = FALSE]
    ELSE IF u.baseURLEntry # "" THEN [u EXCEPT !.baseURLNote = TRUE]
    ELSE u

\* QComboBox::setCurrentIndex: currentIndexChanged is emitted when the index
\* changes; updateBaseURLNote is connected to it from line 95 on.
setCurrentIndex(u, bpt, index, connected) ==
    IF index = u.pasteTypeIndex THEN u
    ELSE IF connected
         THEN updateBaseURLNote([u EXCEPT !.pasteTypeIndex = index], bpt, index)
         ELSE [u EXCEPT !.pasteTypeIndex = index]

\* Faulty variant of loadSettings: the base URL is kept when the stored paste
\* type is not recognised.
loadSettingsKeepsBase(s, u, bpt, connected) ==
    LET found == findData(s.PastebinType)
        pasteTypeIndex == IF found = -1 THEN findData("Mclogs") ELSE found
        u1 == [u EXCEPT !.baseURLEntry = s.PastebinCustomAPIBase]
        u3 == setCurrentIndex(u1, bpt, pasteTypeIndex, connected)
    IN  [u3 EXCEPT !.msaClientID = s.MSAClientIDOverride,
                   !.metaURL = s.MetaURLOverride,
                   !.resourceURL = s.MinecraftResourceURLOverride,
                   !.librariesURL = s.MinecraftLibrariesURLOverride,
                   !.flameKey = s.FlameKeyOverride,
                   !.modrinthToken = s.ModrinthToken,
                   !.userAgentLineEdit = s.UserAgentOverride]

\* APIPage::loadSettings()
loadSettings(s, u, bpt, connected) ==
    LET found == findData(s.PastebinType)
        u1 == [u EXCEPT !.baseURLEntry = s.PastebinCustomAPIBase]
        pasteTypeIndex == IF found = -1 THEN findData("Mclogs") ELSE found
        u2 == IF found = -1 THEN [u1 EXCEPT !.baseURLEntry = ""] ELSE u1
        u3 == setCurrentIndex(u2, bpt, pasteTypeIndex, connected)
    IN  [u3 EXCEPT !.msaClientID = s.MSAClientIDOverride,
                   !.metaURL = s.MetaURLOverride,
                   !.resourceURL = s.MinecraftResourceURLOverride,
                   !.librariesURL = s.MinecraftLibrariesURLOverride,
                   !.flameKey = s.FlameKeyOverride,
                   !.modrinthToken = s.ModrinthToken,
                   !.userAgentLineEdit = s.UserAgentOverride]

\* Texts the user writes into the fields; each matches the field's validator
\* (lines 64, 80-83).
BaseURLTexts == {"", "https://paste.example"}
\* A text each validator accepts (lines 65-67, 84-85); the token and the user
\* agent have no validator.
SampleText ==
    [ msaClientID |-> "01234567-89ab-4cde-8f01-23456789abcd",
      flameKey |-> "$2a$10$abcdefghijklmnopqrstuvwxyzABCDEFGHIJKLMNOPQRSTUVWXYZ0",
      modrinthToken |-> "token",
      userAgentLineEdit |-> "agent/1.0" ]

FieldTexts(f) == {"", SampleText[f]}
UrlHttp == Http \o <<":", "/", "/", "e">>
UrlQuery == Https \o <<":", "/", "/", "e", "?", "q">>
UrlTexts == {<<>>, UrlQuery}

\* verifyUrl on the URL texts the page meets (those the user writes, the
\* server's, and their results), computed once; any other text is computed
\* when it is met.
VerifiedUrls ==
    [url \in UrlTexts \cup {UrlHttp} \cup {verifyUrl(w) : w \in UrlTexts \cup {UrlHttp}}
        |-> verifyUrl(url)]

verifyUrlOf(url) ==
    IF url \in DOMAIN VerifiedUrls THEN VerifiedUrls[url] ELSE verifyUrl(url)

\* APIPage::applySettings(): the settings after the writes.
applySettings(s, u) ==
    [s EXCEPT !.PastebinType = comboBoxEntries[u.pasteTypeIndex],
              !.PastebinCustomAPIBase = u.baseURLEntry,
              !.MSAClientIDOverride = u.msaClientID,
              !.MetaURLOverride = verifyUrlOf(u.metaURL),
              !.MinecraftResourceURLOverride = verifyUrlOf(u.resourceURL),
              !.MinecraftLibrariesURLOverride = verifyUrlOf(u.librariesURL),
              !.FlameKeyOverride = u.flameKey,
              !.ModrinthToken = u.modrinthToken,
              !.UserAgentOverride = u.userAgentLineEdit]

\* The settings a page can find when it is constructed: the paste type and
\* base URL of an earlier version or session, defaults elsewhere.
InitialStores ==
    { [ PastebinType |-> t, PastebinCustomAPIBase |-> b,
        MSAClientIDOverride |-> "", MetaURLOverride |-> <<>>,
        MinecraftResourceURLOverride |-> <<>>,
        MinecraftLibrariesURLOverride |-> <<>>, FlameKeyOverride |-> "",
        ModrinthToken |-> "", UserAgentOverride |-> "" ] :
      <<t, b>> \in {<<"Mclogs", "">>, <<"Unrecognised", "https://paste.example">>} }

\* The widgets as setupUi and the addItem loop leave them.
SetupUi ==
    [ pasteTypeIndex |-> 0, baseURLEntry |-> "", msaClientID |-> "",
      metaURL |-> <<>>, resourceURL |-> <<>>, librariesURL |-> <<>>,
      flameKey |-> "", modrinthToken |-> "", userAgentLineEdit |-> "",
      baseURLNote |-> TRUE, applyPropertiesBtn |-> TRUE ]

\* The properties documents the meta server can hold: the settings a
\* successful downloadAndApplyProperties() writes.
PropertyDocs ==
    { [k \in {} |-> <<>>],
      [k \in {"MetaURLOverride"} |-> UrlHttp] }

\* Meta::Property applying a document to the settings.
applyProperties(s, doc) ==
    [k \in DOMAIN s |-> IF k \in DOMAIN doc THEN doc[k] ELSE s[k]]

UrlOff ==
    /\ urlParts = NoParts
    /\ urlIn = <<>>
    /\ urlOut = <<>>
    /\ urlAgain = <<>>
    /\ urlPhase = "off"

\* APIPage::APIPage: loadSettings(), then resetBaseURLNote(); the button is
\* enabled and no request is outstanding.
Init ==
    /\ store \in InitialStores
    /\ LET u == loadSettings(store, SetupUi, 0, FALSE)
       IN  /\ ui = [u EXCEPT !.baseURLNote = FALSE]
           /\ baseURLPasteType = u.pasteTypeIndex
    /\ pending = 0
    /\ lastOp = "construct"
    /\ pristine = TRUE
    /\ storeUrlsApplied = TRUE
    /\ edits = 0
    /\ UrlOff

\* APIPage::resetBaseURLNote(): the widget side; the caller records the index.
resetBaseURLNote(u) == [u EXCEPT !.baseURLNote = FALSE]

\* Faulty variant of the success lambda: the form is not reloaded.
succeededHandlerNoReload(s, u, bpt) == [u EXCEPT !.applyPropertiesBtn = TRUE]

\* The lambda connected to succeededApplyProperties (lines 98-108).
succeededHandler(s, u, bpt) ==
    [loadSettings(s, u, bpt, TRUE) EXCEPT !.applyPropertiesBtn = TRUE]

\* Faulty variant of the failure lambda: the button stays disabled.
failedHandlerNoEnable(s, u, bpt) == u

\* Faulty variant of the failure lambda: it reloads the form as the success
\* lambda does.
failedHandlerReloads(s, u, bpt) ==
    [loadSettings(s, u, bpt, TRUE) EXCEPT !.applyPropertiesBtn = TRUE]

\* The lambda connected to failedApplyProperties (lines 109-116).
failedHandler(s, u, bpt) == [u EXCEPT !.applyPropertiesBtn = TRUE]

\* The user picks another entry of pasteTypeComboBox.
SelectPasteType(i) ==
    /\ edits < MaxEdits
    /\ i # ui.pasteTypeIndex
    /\ ui' = setCurrentIndex(ui, baseURLPasteType, i, TRUE)
    /\ edits' = edits + 1
    /\ pristine' = FALSE
    /\ lastOp' = "edited"
    /\ UNCHANGED <<store, baseURLPasteType, pending, storeUrlsApplied>>
    /\ UNCHANGED urlVars

\* The user edits baseURLEntry: textEdited runs resetBaseURLNote.
EditBaseURL(text) ==
    /\ edits < MaxEdits
    /\ text # ui.baseURLEntry
    /\ ui' = resetBaseURLNote([ui EXCEPT !.baseURLEntry = text])
    /\ baseURLPasteType' = ui.pasteTypeIndex
    /\ edits' = edits + 1
    /\ pristine' = FALSE
    /\ lastOp' = "edited"
    /\ UNCHANGED <<store, pending, storeUrlsApplied>>
    /\ UNCHANGED urlVars

\* The user edits one of metaURL, resourceURL, librariesURL.
EditUrl(f, text) ==
    /\ edits < MaxEdits
    /\ text # ui[f]
    /\ ui' = [ui EXCEPT ![f] = text]
    /\ edits' = edits + 1
    /\ pristine' = FALSE
    /\ lastOp' = "edited"
    /\ UNCHANGED <<store, baseURLPasteType, pending, storeUrlsApplied>>
    /\ UNCHANGED urlVars

\* The user edits one of msaClientID, flameKey, modrinthToken,
\* userAgentLineEdit.
EditText(f, text) ==
    /\ edits < MaxEdits
    /\ text # ui[f]
    /\ ui' = [ui EXCEPT ![f] = text]
    /\ edits' = edits + 1
    /\ pristine' = FALSE
    /\ lastOp' = "edited"
    /\ UNCHANGED <<store, baseURLPasteType, pending, storeUrlsApplied>>
    /\ UNCHANGED urlVars

\* APIPage::apply()
Apply ==
    /\ store' = applySettings(store, ui)
    /\ storeUrlsApplied' = TRUE
    /\ lastOp' = "apply"
    /\ UNCHANGED <<ui, baseURLPasteType, pending, pristine, edits>>
    /\ UNCHANGED urlVars

\* Faulty variant of on_applyPropertiesBtn_clicked: isEnabled() is not tested.
ClickedNoGuard ==
    /\ ui' = [ui EXCEPT !.applyPropertiesBtn = FALSE]
    /\ pending' = pending + 1
    /\ lastOp' = "clicked"
    /\ UNCHANGED <<store, baseURLPasteType, pristine, storeUrlsApplied, edits>>
    /\ UNCHANGED urlVars

\* APIPage::on_applyPropertiesBtn_clicked()
on_applyPropertiesBtn_clicked ==
    /\ IF ui.applyPropertiesBtn
       THEN /\ ui' = [ui EXCEPT !.applyPropertiesBtn = FALSE]
            /\ pending' = pending + 1
       ELSE UNCHANGED <<ui, pending>>
    /\ lastOp' = IF ui.applyPropertiesBtn THEN "clicked" ELSE "clickIgnored"
    /\ UNCHANGED <<store, baseURLPasteType, pristine, storeUrlsApplied, edits>>
    /\ UNCHANGED urlVars

\* Meta::Property emits one outcome for each call: one can be emitted while a
\* call is outstanding.
outcomeDue == pending > 0

\* Meta::Property emits succeededApplyProperties for an outstanding call,
\* after it applied the document to the settings.
SucceededApplyProperties(doc) ==
    /\ outcomeDue
    /\ store' = applyProperties(store, doc)
    /\ ui' = succeededHandler(store', ui, baseURLPasteType)
    /\ pending' = pending - 1
    /\ pristine' = TRUE
    /\ storeUrlsApplied' = (storeUrlsApplied /\ DOMAIN doc \cap UrlKeys = {})
    /\ lastOp' = "succeeded"
    /\ UNCHANGED <<baseURLPasteType, edits>>
    /\ UNCHANGED urlVars

\* Meta::Property emits failedApplyProperties for an outstanding call.
FailedApplyProperties ==
    /\ outcomeDue
    /\ ui' = failedHandler(store, ui, baseURLPasteType)
    /\ pending' = pending - 1
    /\ lastOp' = "failed"
    /\ UNCHANGED <<store, baseURLPasteType, pristine, storeUrlsApplied, edits>>
    /\ UNCHANGED urlVars

Next ==
    \/ \E i \in 0..3 : SelectPasteType(i)
    \/ \E text \in BaseURLTexts : EditBaseURL(text)
    \/ \E f \in UrlFields, text \in UrlTexts : EditUrl(f, text)
    \/ \E f \in TextFields : \E text \in FieldTexts(f) : EditText(f, text)
    \/ Apply
    \/ on_applyPropertiesBtn_clicked
    \/ \E doc \in PropertyDocs : SucceededApplyProperties(doc)
    \/ FailedApplyProperties

Spec == Init /\ [][Next]_vars

\* Meta::Property answers every call: an outstanding call gets its outcome.
Outcome ==
    \/ \E doc \in PropertyDocs : SucceededApplyProperties(doc)
    \/ FailedApplyProperties

FairSpec == Spec /\ WF_vars(Outcome)

(***************************************************************************)
(* SpecUrl: verifyUrl applied to an input, and again to its result.        *)
(***************************************************************************)
InitUrl ==
    /\ store = [ PastebinType |-> "Mclogs", PastebinCustomAPIBase |-> "",
                 MSAClientIDOverride |-> "", MetaURLOverride |-> <<>>,
                 MinecraftResourceURLOverride |-> <<>>,
                 MinecraftLibrariesURLOverride |-> <<>>,
                 FlameKeyOverride |-> "", ModrinthToken |-> "",
                 UserAgentOverride |-> "" ]
    /\ ui = [loadSettings(store, SetupUi, 0, FALSE) EXCEPT !.baseURLNote = FALSE]
    /\ baseURLPasteType = 0
    /\ pending = 0
    /\ lastOp = "construct"
    /\ pristine = TRUE
    /\ storeUrlsApplied = TRUE
    /\ edits = 0
    /\ urlParts \in UrlParts
    /\ urlIn = UrlText(urlParts)
    /\ urlOut = <<>>
    /\ urlAgain = <<>>
    /\ urlPhase = "in"

VerifyOnce ==
    /\ urlPhase = "in"
    /\ urlOut' = verifyUrl(urlIn)
    /\ urlPhase' = "once"
    /\ UNCHANGED <<urlParts, urlIn, urlAgain>>
    /\ UNCHANGED pageVars

VerifyTwice ==
    /\ urlPhase = "once"
    /\ urlAgain' = verifyUrl(urlOut)
    /\ urlPhase' = "twice"
    /\ UNCHANGED <<urlParts, urlIn, urlOut>>
    /\ UNCHANGED pageVars

NextUrl == VerifyOnce \/ VerifyTwice

SpecUrl == InitUrl /\ [][NextUrl]_vars

(***************************************************************************)
(* Properties.                                                             *)
(***************************************************************************)
startsWith(s, prefix) ==
    Len(s) >= Len(prefix) /\ SubSeq(s, 1, Len(prefix)) = prefix

\* The text up to the first "?" or "#": scheme, authority and path.
UpToQuery(s) ==
    Before(Before(s, IndexOf(s, "#")), IndexOf(Before(s, IndexOf(s, "#")), "?"))

UrlQueryApplied == Https \o <<":", "/", "/", "e", "/", "?", "q">>

\* C1 as stated: right after applySettings each of the three stored URL
\* overrides is empty, or ends with "/" and does not have the scheme http.
C1_EndsWithSlash ==
    lastOp = "apply" =>
        \A k \in UrlKeys :
            \/ store[k] = <<>>
            \/ /\ endsWith(store[k], "/")
               /\ ~startsWith(store[k], Http \o <<":">>)

\* C1 amended: right after applySettings each of the three stored URL
\* overrides is empty, or its path (the text before any "?" or "#") ends
\* with "/" and its scheme is not http.
C1_PathEndsWithSlash ==
    lastOp = "apply" =>
        \A k \in UrlKeys :
            \/ store[k] = <<>>
            \/ /\ endsWith(UpToQuery(store[k]), "/")
               /\ ~startsWith(store[k], Http \o <<":">>)

\* C1 witness: an override with a query was applied; the stored text has the
\* slash before the "?".
C1_Witness ==
    /\ lastOp = "apply"
    /\ store.MetaURLOverride = UrlQueryApplied

\* C2: verifyUrl is idempotent, verifyUrl(verifyUrl(x)) = verifyUrl(x).
C2_Idempotent == urlPhase = "twice" => urlAgain = urlOut

\* C2 witness: verifyUrl ran twice on an input that the first run changed.
C2_Witness ==
    /\ urlPhase = "twice"
    /\ urlIn = UrlHttp
    /\ urlOut # urlIn

\* What C3 expects for the components p with the scheme and host already
\* brought to the form given: the slash appended to the path, http replaced.
Normalised(p, scheme, host) ==
    UrlText([p EXCEPT !.slash = TRUE,
                      !.scheme = IF scheme = Http THEN Https ELSE scheme,
                      !.host = host])

\* C3 as stated: a non-empty input whose path does not end with "/" comes back
\* with one "/" appended to the path and the scheme http replaced by https,
\* nothing else changed; the empty input gives the empty text; an https input
\* whose path ends with "/" comes back unchanged.
C3_NothingElseChanged ==
    urlPhase \in {"once", "twice"} =>
        /\ urlIn = <<>> => urlOut = <<>>
        /\ (urlIn # <<>> /\ ~urlParts.slash) =>
               urlOut = Normalised(urlParts, urlParts.scheme, urlParts.host)
        /\ (urlParts.scheme = Https /\ urlParts.slash) => urlOut = urlIn

\* C3 amended: as C3, except that the scheme and the host also come back in
\* lower case, and the scheme is replaced when its lower-case form is http.
C3_UpToCase ==
    urlPhase \in {"once", "twice"} =>
        /\ urlIn = <<>> => urlOut = <<>>
        /\ (urlIn # <<>> /\ ~urlParts.slash) =>
               urlOut = Normalised(urlParts, toLowerSeq(urlParts.scheme),
                                   toLowerSeq(urlParts.host))
        /\ (urlParts.scheme = Https /\ urlParts.slash) =>
               urlOut = UrlText([urlParts EXCEPT !.host = toLowerSeq(urlParts.host)])

\* C3 witness: verifyUrl ran on http://E?q#f, whose path is empty and whose
\* host is in upper case.
C3_Witness ==
    /\ urlPhase = "once"
    /\ urlIn = Http \o <<":", "/", "/", "E", "?", "q", "#", "f">>
    /\ urlOut = Https \o <<":", "/", "/", "e", "/", "?", "q", "#", "f">>

FormFields == {"pasteTypeIndex", "baseURLEntry", "msaClientID", "metaURL",
               "resourceURL", "librariesURL", "flameKey", "modrinthToken",
               "userAgentLineEdit"}

\* The paste-service kind the form shows.
FormKind == comboBoxEntries[ui.pasteTypeIndex]

\* The paste fields of the form are those a load of the store gives: the
\* stored kind and base URL, or Mclogs and no base URL for a kind that is not
\* one of the four.
PasteFieldsLoaded ==
    IF store.PastebinType \in {"Mclogs", "NullPointer", "PasteGG", "Hastebin"}
    THEN FormKind = store.PastebinType /\ ui.baseURLEntry = store.PastebinCustomAPIBase
    ELSE FormKind = "Mclogs" /\ ui.baseURLEntry = ""

\* C4: after loadSettings (in the constructor, in the success handler) an
\* unrecognised stored paste type gives the kind Mclogs and an empty base URL,
\* a recognised one gives that kind and the stored base URL; the form's kind
\* is always one of the four.
C4_UnrecognisedFallsBack ==
    /\ ui.pasteTypeIndex \in 0..3
    /\ FormKind \in {"Mclogs", "NullPointer", "PasteGG", "Hastebin"}
    /\ lastOp \in {"construct", "succeeded"} => PasteFieldsLoaded

\* C4 witness: the success handler reloaded a store with an unrecognised
\* paste type and a base URL, after the user had picked another kind.
C4_Witness ==
    /\ lastOp = "succeeded"
    /\ edits > 0
    /\ store.PastebinType = "Unrecognised"
    /\ store.PastebinCustomAPIBase # ""
    /\ FormKind = "Mclogs"
    /\ ui.baseURLEntry = ""

UrlsOf(s) == [k \in UrlKeys |-> s[k]]

\* C5 as stated: applySettings right after loadSettings, no user edit in
\* between, leaves the three stored URL overrides unchanged.
C5_LoadApplyFixedPoint ==
    [][(lastOp' = "apply" /\ pristine) => UrlsOf(store') = UrlsOf(store)]_vars

\* C5 amended: applySettings right after loadSettings, no user edit in
\* between, leaves the three stored URL overrides unchanged when they are the
\* defaults or were written by applySettings.
C5_AppliedFixedPoint ==
    [][(lastOp' = "apply" /\ pristine /\ storeUrlsApplied)
          => UrlsOf(store') = UrlsOf(store)]_vars

\* C5 witness: an applied override was loaded again and applied again.
C5_Witness ==
    /\ lastOp = "apply"
    /\ pristine
    /\ edits > 0
    /\ store.MetaURLOverride = UrlQueryApplied
    /\ ui.metaURL = UrlQueryApplied

\* C6: at most one request is outstanding, and a click while the button is
\* disabled starts no request and changes neither the form nor the settings.
C6_OneRequest ==
    /\ [](pending <= 1)
    /\ [][(lastOp' \in {"clicked", "clickIgnored"} /\ ~ui.applyPropertiesBtn)
             => /\ pending' = pending
                /\ ui' = ui
                /\ store' = store]_vars

\* C6 witness: a click arrived while a request was outstanding.
C6_Witness ==
    /\ lastOp = "clickIgnored"
    /\ pending = 1
    /\ ~ui.applyPropertiesBtn

\* C7: the button is disabled exactly while a request is outstanding; an
\* outcome is one handler run that ends the request and enables the button;
\* and every request gets its outcome.
C7_OutcomeOnce ==
    /\ [](pending \in {0, 1} /\ (ui.applyPropertiesBtn <=> pending = 0))
    /\ [][lastOp' \in {"succeeded", "failed"} /\ lastOp' # lastOp
             => pending = 1 /\ pending' = 0 /\ ui'.applyPropertiesBtn]_vars
    /\ (~ui.applyPropertiesBtn ~> ui.applyPropertiesBtn)

\* C7 witness: a request failed after an earlier one had succeeded and
\* written an override.
C7_Witness ==
    /\ lastOp = "failed"
    /\ store.MetaURLOverride = UrlHttp
    /\ pending = 0
    /\ ui.applyPropertiesBtn

\* C8: a failure outcome leaves every form field and the settings unchanged
\* and enables the button.
C8_FailureFrame ==
    [][lastOp' = "failed"
          => /\ \A f \in FormFields : ui'[f] = ui[f]
             /\ store' = store
             /\ ui'.applyPropertiesBtn]_vars

\* C8 witness: a failure arrived while the form held an edit that was not
\* applied.
C8_Witness ==
    /\ lastOp = "failed"
    /\ ui.applyPropertiesBtn
    /\ ui.modrinthToken = SampleText.modrinthToken
    /\ store.ModrinthToken = ""

\* C9: after a success outcome every form field holds what loadSettings
\* derives from the settings, and the button is enabled.
C9_SuccessReloads ==
    lastOp = "succeeded" =>
        /\ PasteFieldsLoaded
        /\ ui.msaClientID = store.MSAClientIDOverride
        /\ ui.metaURL = store.MetaURLOverride
        /\ ui.resourceURL = store.MinecraftResourceURLOverride
        /\ ui.librariesURL = store.MinecraftLibrariesURLOverride
        /\ ui.flameKey = store.FlameKeyOverride
        /\ ui.modrinthToken = store.ModrinthToken
        /\ ui.userAgentLineEdit = store.UserAgentOverride
        /\ ui.applyPropertiesBtn

\* C9 witness: a success arrived after one user edit that was never applied
\* (the settings are still those of a fresh start).
C9_Witness ==
    /\ lastOp = "succeeded"
    /\ edits = 1
    /\ store \in InitialStores

\* C10: whenever the base-URL note is visible, the base URL entry is not empty
\* and the selected paste-type index differs from baseURLPasteType.
C10_NoteImpliesBaseURL ==
    ui.baseURLNote =>
        /\ ui.baseURLEntry # ""
        /\ ui.pasteTypeIndex # baseURLPasteType

====
